---- MODULE Spec2Model ----
(***************************************************************************)
(* ShuffleRouter: a UDP relay that delays, reorders and drops datagrams.   *)
(* The model follows src/buffer.rs, src/packet.rs and src/main.rs.  Time   *)
(* is counted in whole milliseconds.  A Buffer's byte array is kept as the *)
(* prefix that has ever been written; every byte past that prefix is the   *)
(* zero Buffer::default() put there.  The panics of main() (a poll error,  *)
(* a recv_from error other than WouldBlock, a sender that is not IPv4) and *)
(* its two early returns (an invalid --drop, a failed bind) end the run    *)
(* before or without touching the queue; the model has no step for them.   *)
(***************************************************************************)
EXTENDS Integers, Sequences, FiniteSets, TLC

(* ------------------------------ bounds --------------------------------- *)
\* datagrams the socket delivers in one run
MaxRecv == 2
\* last millisecond the clock reaches
MaxTime == 2
\* payload bytes that follow the six header bytes of the longest datagram
MaxPayload == 1
\* packets pushed when the Delivery Queue is driven on its own
MaxPushes == 4
MaxHeld == 2
MaxRecycles == 3

(* ------------------------- program constants --------------------------- *)
MAX_BUFFER_SIZE == 65535
\* take(4u8) in address()
AddrLen == 4
\* be_u16 in sockaddr
PortLen == 2
HeaderLen == AddrLen + PortLen

SOCKACT == "SOCKACT"

\* Option: None, or Some(x) with x = Value(o)
None == <<>>
Some(x) == <<x>>
Value(o) == o[1]

(* ------------------------------ inputs --------------------------------- *)
Addr(a, b, c, d, port) == [ip |-> <<a, b, c, d>>, port |-> port]

\* opaque payload that follows the header
PayloadBytes == <<170, 187, 204, 221>>

\* command lines: --drop (in percent), --min_delay and --rand_delay
Options ==
    {[drop |-> 0, min_delay |-> 0, rand_delay |-> 1],
     [drop |-> 50, min_delay |-> 1, rand_delay |-> 0],
     [drop |-> 100, min_delay |-> 0, rand_delay |-> 0]}

Min(a, b) == IF a < b THEN a ELSE b
Max(a, b) == IF a > b THEN a ELSE b

\* the wire form of an address: four octets, then the port, big-endian
Wire(addr) == addr.ip \o <<addr.port \div 256, addr.port % 256>>

\* the datagram a peer sends to have payload relayed to dst, cut after n bytes
Datagram(dst, payload, n) == SubSeq(Wire(dst) \o payload, 1, n)

\* what the socket may deliver: a datagram shorter than a header, a bare
\* header and a header with payload, each with the peer it comes from
Arrivals ==
    LET d1 == Addr(192, 168, 1, 5, 9000)
        d2 == Addr(10, 0, 0, 2, 80)
        s1 == Addr(10, 0, 0, 1, 4000)
        s2 == Addr(172, 16, 0, 9, 513)
        payload == SubSeq(PayloadBytes, 1, MaxPayload)
    IN {[dgram |-> Datagram(d1, payload, AddrLen), addr |-> s1],
        [dgram |-> Datagram(d1, payload, HeaderLen), addr |-> s1],
        [dgram |-> Datagram(d2, payload, HeaderLen + MaxPayload), addr |-> s2]}

(* -------------------------- buffer.rs ---------------------------------- *)
\* Buffer::default(): zero filled, logical length at full capacity.  id names
\* the allocation, so that two holders of one buffer can be told apart from
\* two buffers of equal content.
BufferDefault(id) == [id |-> id, buf |-> <<>>, len |-> MAX_BUFFER_SIZE]

\* byte i (from 0) of a byte array
ByteAt(buf, i) == IF i < Len(buf) THEN buf[i + 1] ELSE 0

\* buf[off .. off+Len(bytes)].copy_from_slice(bytes)
CopyFromSlice(buf, off, bytes) ==
    [i \in 1..Max(Len(buf), off + Len(bytes)) |->
        IF i > off /\ i <= off + Len(bytes) THEN bytes[i - off]
        ELSE ByteAt(buf, i - 1)]

\* Buffer::get(): the slice &buf[..len]
BufferGet(b) == [base |-> b.buf, off |-> 0, len |-> b.len]

\* Buffer::set_len
SetLen(b, len) == [b EXCEPT !.len = len]

\* the bytes of a slice, as send_to reads them
SliceBytes(s) == [i \in 1..s.len |-> ByteAt(s.base, s.off + i - 1)]

\* get_buffer taking the oldest buffer of the pool, as queue.remove(0) would
GetBufferOldest(p, freshId) ==
    IF p = <<>>
    THEN [buffer |-> BufferDefault(freshId), pool |-> p]
    ELSE [buffer |-> p[1], pool |-> SubSeq(p, 2, Len(p))]

\* BufferPool::get_buffer: the top of the stack, or a fresh buffer
GetBuffer(p, freshId) ==
    IF p = <<>>
    THEN [buffer |-> BufferDefault(freshId), pool |-> p]
    ELSE [buffer |-> p[Len(p)], pool |-> SubSeq(p, 1, Len(p) - 1)]

\* recycle_byffer without its set_len
RecycleBufferKeepsLen(p, buffer) == Append(p, buffer)

\* BufferPool::recycle_byffer
RecycleBuffer(p, buffer) == Append(p, SetLen(buffer, MAX_BUFFER_SIZE))

(* -------------------------- packet.rs ---------------------------------- *)
\* the comparison of the exit times, not reversed
CmpNatural(self, other) ==
    IF self.exit_time < other.exit_time THEN "Less"
    ELSE IF self.exit_time = other.exit_time THEN "Equal"
    ELSE "Greater"

\* Ord for Packet: the comparison of the exit times, reversed
Cmp(self, other) ==
    IF other.exit_time < self.exit_time THEN "Less"
    ELSE IF other.exit_time = self.exit_time THEN "Equal"
    ELSE "Greater"

\* nom::bytes::complete::take(n): n bytes and the rest, or an error
Take(s, n) ==
    IF s.len < n
    THEN [ok |-> FALSE]
    ELSE [ok |-> TRUE,
          out |-> [i \in 1..n |-> ByteAt(s.base, s.off + i - 1)],
          rest |-> [base |-> s.base, off |-> s.off + n, len |-> s.len - n]]

\* address(): four bytes as an Ipv4Addr
Address(s) == Take(s, AddrLen)

\* be_u16: two bytes as a big-endian number
BeU16(s) ==
    LET t == Take(s, PortLen) IN
    IF t.ok
    THEN [ok |-> TRUE, out |-> t.out[1] * 256 + t.out[2], rest |-> t.rest]
    ELSE [ok |-> FALSE]

\* sockaddr: address, then port
SockAddr(s) ==
    LET ip == Address(s) IN
    IF ~ip.ok THEN [ok |-> FALSE]
    ELSE LET port == BeU16(ip.rest) IN
         IF ~port.ok THEN [ok |-> FALSE]
         ELSE [ok |-> TRUE, ip |-> ip.out, port |-> port.out]

\* get_dst: the complete parsers never report Incomplete, so every failure
\* is PacketError::Unknown
GetDst(s) ==
    LET r == SockAddr(s) IN
    IF r.ok
    THEN [ok |-> TRUE, dst |-> [ip |-> r.ip, port |-> r.port]]
    ELSE [ok |-> FALSE, err |-> "Unknown"]

\* u16::to_le_bytes
ToLeBytes(port) == <<port % 256, port \div 256>>

\* u16::to_be_bytes
ToBeBytes(port) == <<port \div 256, port % 256>>

\* Packet::create.  tag holds what the run knows about the datagram and the
\* code does not keep: its number, its bytes as sent, its sender and the
\* instant of its reception.
PacketCreate(orig, data, len, exit_time, tag) ==
    LET d == GetDst(BufferGet(data)) IN
    IF ~d.ok THEN [ok |-> FALSE, err |-> d.err]
    ELSE LET b1 == CopyFromSlice(data.buf, 0, orig.ip)
             b2 == CopyFromSlice(b1, AddrLen, ToBeBytes(orig.port))
         IN [ok |-> TRUE,
             packet |-> [dst |-> d.dst,
                         data |-> SetLen([data EXCEPT !.buf = b2], len),
                         exit_time |-> exit_time,
                         tag |-> tag]]

\* Instant::saturating_duration_since: the time from earlier to later, zero
\* when earlier is the later of the two
SaturatingDurationSince(later, earlier) ==
    IF later > earlier THEN later - earlier ELSE 0

\* get_duration_till_next built on checked_duration_since, which has no
\* answer once the exit time is past
GetDurationTillNextChecked(p, t) ==
    IF p.exit_time >= t THEN Some(p.exit_time - t) ELSE None

\* Packet::get_duration_till_next
GetDurationTillNext(p, t) == Some(SaturatingDurationSince(p.exit_time, t))

(* ------------------------ the Delivery Queue --------------------------- *)
\* queue.rs is a binary max-heap of Packets under their Ord: slot 1 is the
\* greatest packet, the children of slot i are slots 2i and 2i+1.
Swap(h, i, j) == [h EXCEPT ![i] = h[j], ![j] = h[i]]

RECURSIVE SiftUp(_, _)
SiftUp(h, i) ==
    IF i > 1 /\ Cmp(h[i], h[i \div 2]) = "Greater"
    THEN SiftUp(Swap(h, i, i \div 2), i \div 2)
    ELSE h

RECURSIVE SiftDown(_, _)
SiftDown(h, i) ==
    LET l == 2 * i
        r == 2 * i + 1
        c == IF r <= Len(h) /\ Cmp(h[r], h[l]) = "Greater" THEN r ELSE l
    IN IF l <= Len(h) /\ Cmp(h[c], h[i]) = "Greater"
       THEN SiftDown(Swap(h, i, c), c)
       ELSE h

QueuePush(q, p) == SiftUp(Append(q, p), Len(q) + 1)

QueuePeek(q) == q[1]

\* the queue without its head
QueuePop(q) ==
    IF Len(q) = 1 THEN <<>>
    ELSE SiftDown([i \in 1..(Len(q) - 1) |-> IF i = 1 THEN q[Len(q)] ELSE q[i]], 1)

(* --------------------------- main.rs ----------------------------------- *)
\* a Bernoulli distribution that can still give false at probability one
BernoulliSampleOpenTop(drop) == IF drop = 0 THEN {FALSE} ELSE {TRUE, FALSE}

\* Bernoulli::new(p).sample: the outcomes the distribution can give
BernoulliSample(drop) ==
    IF drop = 100 THEN {TRUE} ELSE IF drop = 0 THEN {FALSE} ELSE {TRUE, FALSE}

\* Uniform::new_inclusive(low, high).sample
UniformInclusive(low, high) == low..high

\* a delay distribution that forgets min_delay
DelayDistributionNoMin(o) == UniformInclusive(0, o.rand_delay)

\* the delay distribution main() builds from the options
DelayDistribution(o) == UniformInclusive(o.min_delay, o.min_delay + o.rand_delay)

\* socket.recv_from(buffer.get_mut()): the datagram lands at the start of the
\* array, cut at its capacity; the logical length is not touched
RecvFrom(buffer, dgram) ==
    LET n == Min(Len(dgram), MAX_BUFFER_SIZE) IN
    [buffer |-> [buffer EXCEPT !.buf = CopyFromSlice(@, 0, SubSeq(dgram, 1, n))],
     len |-> n]

VARIABLES
    pc,          \* where main() stands: top, poll, events, drain, pq_ret, ingest, done
    clock,       \* the monotonic clock, Instant::now()
    opt,         \* the parsed command line
    queue,       \* the Delivery Queue
    buffer_pool, \* BufferPool.queue
    now,         \* main()'s now of the current iteration
    max_delay,   \* the timeout handed to poll
    interest,    \* the readiness the socket is registered for
    events,      \* events of the last poll still to be handled, first first
    pq_now,      \* process_queue's now
    pq_bytes,    \* process_queue's bytes_sent
    pq_delay,    \* process_queue's extra_delay
    bytes_sent,  \* main()'s bytes_sent
    extra_delay, \* main()'s extra_delay
    received,    \* history: datagrams recv_from has returned
    parsed,      \* history: datagrams Packet::create has accepted
    pushed,      \* history: packets pushed to the queue
    refused,     \* history: received lengths of the datagrams Packet::create refused
    lastAttempt, \* history: the last send_to call and its outcome
    sent,        \* history: for each datagram, the send_to calls that returned Ok
    sentBytes,   \* history: the sum of the lengths send_to has returned
    held,        \* PoolSpec: the buffers taken from the pool and not yet recycled
    recycled     \* PoolSpec: the ids of the buffers recycled, in the order of recycling

vars == <<pc, clock, opt, queue, buffer_pool, now, max_delay, interest, events,
          pq_now, pq_bytes, pq_delay, bytes_sent, extra_delay,
          received, parsed, pushed, refused, lastAttempt, sent, sentBytes,
          held, recycled>>

mainVars == <<now, max_delay, interest>>
pqVars == <<pq_now, pq_bytes, pq_delay>>
sentVars == <<bytes_sent, extra_delay>>
ingestHist == <<received, parsed, pushed, refused>>
sendHist == <<lastAttempt, sent, sentBytes>>
aux == <<held, recycled>>

\* ids of the buffers a pool and a queue hold
HeldIds(p, q) == {p[i].id : i \in DOMAIN p} \cup {q[i].data.id : i \in DOMAIN q}

\* the allocator hands out the first free slot
FreshId(p, q) == CHOOSE n \in 1..(Len(p) + Len(q) + 1) : n \notin HeldIds(p, q)

\* a loop condition that does not look at the time
HeadDueAnyTime(q, t) == q # <<>>

\* a loop condition that lets the head go one tick early
HeadDueWithinTick(q, t) == q # <<>> /\ QueuePeek(q).exit_time <= t + 1

\* the condition of process_queue's loop: the head of the queue is due
HeadDue(q, t) == q # <<>> /\ QueuePeek(q).exit_time <= t

Init ==
    /\ pc = "top"
    /\ clock = 0
    /\ opt \in Options
    /\ queue = <<>>
    /\ buffer_pool = <<>>
    /\ now = 0
    /\ max_delay = None
    /\ interest = {"readable"}
    /\ events = <<>>
    /\ pq_now = 0
    /\ pq_bytes = 0
    /\ pq_delay = 0
    /\ bytes_sent = 0
    /\ extra_delay = 0
    /\ received = 0
    /\ parsed = 0
    /\ pushed = 0
    /\ refused = <<>>
    /\ lastAttempt = None
    /\ sent = [pid \in 1..MaxRecv |-> 0]
    /\ sentBytes = 0
    /\ held = <<>>
    /\ recycled = <<>>

\* time passes.  The clock is read by LoopTop, by SockactEvent and by RecvKeep;
\* time that passes elsewhere shows in the next of these readings as time
\* passed here.
Tick ==
    /\ pc \in {"top", "poll", "ingest"}
    /\ clock < MaxTime
    /\ clock' = clock + 1
    /\ UNCHANGED <<pc, opt, aux, queue, buffer_pool, mainVars, events, pqVars, sentVars,
                   ingestHist, sendHist>>

\* max_delay as the bare time till the head is due
MaxDelayNoExtra(q, t, extra) ==
    IF q = <<>> THEN None
    ELSE GetDurationTillNext(QueuePeek(q), t)

\* max_delay: the time till the head is due, less the lateness run up so far
MaxDelay(q, t, extra) ==
    IF q = <<>> THEN None
    ELSE LET delay == GetDurationTillNext(QueuePeek(q), t) IN
         IF delay = None THEN None
         ELSE IF Value(delay) > extra THEN Some(Value(delay) - extra) ELSE Some(0)

\* the socket registered for both kinds of readiness at every iteration
InterestAlwaysWritable(q, t) == {"readable", "writable"}

\* the interest main() registers before it polls
Interest(q, t) ==
    IF HeadDue(q, t) THEN {"readable", "writable"} ELSE {"readable"}

\* the head of the reactor loop, up to the call of poll
LoopTop ==
    /\ pc = "top"
    /\ now' = clock
    /\ max_delay' = MaxDelay(queue, clock, extra_delay)
    /\ interest' = Interest(queue, clock)
    /\ pc' = "poll"
    /\ UNCHANGED <<clock, opt, aux, queue, buffer_pool, events, pqVars, sentVars,
                   ingestHist, sendHist>>

\* the socket events a poll can return: ready for part of the interest
SockEvents(i) == {[token |-> SOCKACT, readiness |-> r] : r \in (SUBSET i) \ {{}}}

\* poll returns with a socket event.  A signal event that follows it in the
\* list is not stored: SigtermEvent decides on it when the loop gets there.
PollEvents ==
    /\ pc = "poll"
    /\ \E e \in SockEvents(interest) : events' = <<e>>
    /\ pc' = "events"
    /\ UNCHANGED <<clock, opt, aux, queue, buffer_pool, mainVars, pqVars, sentVars,
                   ingestHist, sendHist>>

\* poll returns with the signal event first: the total is printed and main()
\* returns, whatever follows in the list
PollSignal ==
    /\ pc = "poll"
    /\ events' = <<>>
    /\ pc' = "done"
    /\ UNCHANGED <<clock, opt, aux, queue, buffer_pool, mainVars, pqVars, sentVars,
                   ingestHist, sendHist>>

\* poll returns with no event once its timeout has run out
PollTimeout ==
    /\ pc = "poll"
    /\ max_delay # None
    /\ clock >= now + Value(max_delay)
    /\ events' = <<>>
    /\ pc' = "top"
    /\ UNCHANGED <<clock, opt, aux, queue, buffer_pool, mainVars, pqVars, sentVars,
                   ingestHist, sendHist>>

\* every event of the poll has been handled
EventsDone ==
    /\ pc = "events"
    /\ events = <<>>
    /\ pc' = "top"
    /\ UNCHANGED <<clock, opt, aux, queue, buffer_pool, mainVars, events, pqVars, sentVars,
                   ingestHist, sendHist>>

\* a socket event: process_queue starts if the socket is writable, else the
\* receive loop if it is readable
SockactEvent ==
    /\ pc = "events"
    /\ events # <<>>
    /\ IF "writable" \in Head(events).readiness
       THEN /\ pc' = "drain"
            /\ pq_now' = clock
            /\ pq_bytes' = 0
            /\ pq_delay' = 0
       ELSE /\ pc' = "ingest"
            /\ UNCHANGED pqVars
    /\ UNCHANGED <<clock, opt, aux, queue, buffer_pool, mainVars, events, sentVars,
                   ingestHist, sendHist>>

\* the signal event after the socket event: the total is printed and main()
\* returns
SigtermEvent ==
    /\ pc = "events"
    /\ events = <<>>
    /\ pc' = "done"
    /\ UNCHANGED <<clock, opt, aux, queue, buffer_pool, mainVars, events, pqVars, sentVars,
                   ingestHist, sendHist>>

Attempt(p, result) ==
    [pid |-> p.tag.pid, exit_time |-> p.exit_time, result |-> result]

\* an Ok branch that counts the send and leaves the packet at the head
SendOkKeepsHead ==
    /\ pc = "drain"
    /\ HeadDue(queue, pq_now)
    /\ LET p == QueuePeek(queue) IN
        /\ pq_bytes' = pq_bytes + Len(SliceBytes(BufferGet(p.data)))
        /\ pq_delay' = pq_delay + (pq_now - p.exit_time)
        /\ lastAttempt' = Some(Attempt(p, "Ok"))
        /\ sent' = [sent EXCEPT ![p.tag.pid] = @ + 1]
        /\ sentBytes' = sentBytes + Len(SliceBytes(BufferGet(p.data)))
    /\ UNCHANGED <<pc, clock, opt, aux, queue, buffer_pool, mainVars, events, pq_now,
                   sentVars, ingestHist>>

\* process_queue, Ok(len): the head is popped and its buffer recycled
SendOk ==
    /\ pc = "drain"
    /\ HeadDue(queue, pq_now)
    /\ LET p == QueuePeek(queue) IN
        /\ pq_bytes' = pq_bytes + Len(SliceBytes(BufferGet(p.data)))
        /\ pq_delay' = pq_delay + (pq_now - p.exit_time)
        /\ buffer_pool' = RecycleBuffer(buffer_pool, p.data)
        /\ queue' = QueuePop(queue)
        /\ lastAttempt' = Some(Attempt(p, "Ok"))
        /\ sent' = [sent EXCEPT ![p.tag.pid] = @ + 1]
        /\ sentBytes' = sentBytes + Len(SliceBytes(BufferGet(p.data)))
    /\ UNCHANGED <<pc, clock, opt, aux, mainVars, events, pq_now, sentVars, ingestHist>>

\* a WouldBlock branch that removes the packet as the Ok branch does
SendWouldBlockPops ==
    /\ pc = "drain"
    /\ HeadDue(queue, pq_now)
    /\ lastAttempt' = Some(Attempt(QueuePeek(queue), "WouldBlock"))
    /\ buffer_pool' = RecycleBuffer(buffer_pool, QueuePeek(queue).data)
    /\ queue' = QueuePop(queue)
    /\ pc' = "pq_ret"
    /\ UNCHANGED <<clock, opt, aux, mainVars, events, pqVars, sentVars, ingestHist,
                   sent, sentBytes>>

\* process_queue, WouldBlock: break
SendWouldBlock ==
    /\ pc = "drain"
    /\ HeadDue(queue, pq_now)
    /\ lastAttempt' = Some(Attempt(QueuePeek(queue), "WouldBlock"))
    /\ pc' = "pq_ret"
    /\ UNCHANGED <<clock, opt, aux, queue, buffer_pool, mainVars, events, pqVars, sentVars,
                   ingestHist, sent, sentBytes>>

\* process_queue, any other error: a warning, 0 bytes, and the loop goes on
SendErr ==
    /\ pc = "drain"
    /\ HeadDue(queue, pq_now)
    /\ lastAttempt' = Some(Attempt(QueuePeek(queue), "Err"))
    /\ UNCHANGED <<pc, clock, opt, aux, queue, buffer_pool, mainVars, events, pqVars,
                   sentVars, ingestHist, sent, sentBytes>>

\* process_queue: the while condition fails
DrainEnd ==
    /\ pc = "drain"
    /\ ~HeadDue(queue, pq_now)
    /\ pc' = "pq_ret"
    /\ UNCHANGED <<clock, opt, aux, queue, buffer_pool, mainVars, events, pqVars, sentVars,
                   ingestHist, sendHist>>

\* main() keeping the count of the last pass only: bytes_sent = bytes
PqReturnOverwrites ==
    /\ pc = "pq_ret"
    /\ bytes_sent' = pq_bytes
    /\ extra_delay' = extra_delay + pq_delay
    /\ pq_now' = 0
    /\ pq_bytes' = 0
    /\ pq_delay' = 0
    /\ IF "readable" \in Head(events).readiness
       THEN pc' = "ingest" /\ UNCHANGED events
       ELSE pc' = "events" /\ events' = Tail(events)
    /\ UNCHANGED <<clock, opt, aux, queue, buffer_pool, mainVars, ingestHist, sendHist>>

\* process_queue returns: main() adds up, and goes on to the receive loop if
\* the event is readable too
PqReturn ==
    /\ pc = "pq_ret"
    /\ bytes_sent' = bytes_sent + pq_bytes
    /\ extra_delay' = extra_delay + pq_delay
    /\ pq_now' = 0
    /\ pq_bytes' = 0
    /\ pq_delay' = 0
    /\ IF "readable" \in Head(events).readiness
       THEN pc' = "ingest" /\ UNCHANGED events
       ELSE pc' = "events" /\ events' = Tail(events)
    /\ UNCHANGED <<clock, opt, aux, queue, buffer_pool, mainVars, ingestHist, sendHist>>

\* receive loop: recv_from would block; the buffer just taken is dropped
RecvWouldBlock ==
    /\ pc = "ingest"
    /\ buffer_pool' = GetBuffer(buffer_pool, FreshId(buffer_pool, queue)).pool
    /\ pc' = "events"
    /\ events' = Tail(events)
    /\ UNCHANGED <<clock, opt, aux, queue, mainVars, pqVars, sentVars, ingestHist, sendHist>>

\* receive loop: a datagram arrives and the drop sample discards it
RecvDrop ==
    /\ pc = "ingest"
    /\ received < MaxRecv
    /\ TRUE \in BernoulliSample(opt.drop)
    /\ buffer_pool' = GetBuffer(buffer_pool, FreshId(buffer_pool, queue)).pool
    /\ received' = received + 1
    /\ UNCHANGED <<pc, clock, opt, aux, queue, mainVars, events, pqVars, sentVars,
                   parsed, pushed, refused, sendHist>>

\* what the kept branch does with a datagram: the queue and the history after
\* Packet::create and the match on its result
Schedule(q, hist, created, len) ==
    IF created.ok
    THEN [queue |-> QueuePush(q, created.packet),
          parsed |-> hist.parsed + 1,
          pushed |-> hist.pushed + 1,
          refused |-> hist.refused]
    ELSE [queue |-> q, parsed |-> hist.parsed, pushed |-> hist.pushed,
          refused |-> Append(hist.refused, len)]

\* receive loop: a datagram arrives and is kept
RecvKeep ==
    /\ pc = "ingest"
    /\ received < MaxRecv
    /\ FALSE \in BernoulliSample(opt.drop)
    /\ \E a \in Arrivals, ms \in DelayDistribution(opt) :
        LET dgram == a.dgram
            addr == a.addr
            g == GetBuffer(buffer_pool, FreshId(buffer_pool, queue))
            r == RecvFrom(g.buffer, dgram)
            tag == [pid |-> received + 1, rx |-> dgram, orig |-> addr, at |-> clock]
            s == Schedule(queue,
                          [parsed |-> parsed, pushed |-> pushed, refused |-> refused],
                          PacketCreate(addr, r.buffer, r.len, clock + ms, tag), r.len)
        IN /\ buffer_pool' = g.pool
           /\ queue' = s.queue
           /\ parsed' = s.parsed
           /\ pushed' = s.pushed
           /\ refused' = s.refused
    /\ received' = received + 1
    /\ UNCHANGED <<pc, clock, opt, aux, mainVars, events, pqVars, sentVars, sendHist>>

Next ==
    \/ Tick
    \/ LoopTop
    \/ PollEvents
    \/ PollSignal
    \/ PollTimeout
    \/ EventsDone
    \/ SockactEvent
    \/ SigtermEvent
    \/ SendOk
    \/ SendWouldBlock
    \/ SendErr
    \/ DrainEnd
    \/ PqReturn
    \/ RecvWouldBlock
    \/ RecvDrop
    \/ RecvKeep

Spec == Init /\ [][Next]_vars

(* ------------------ runs that go on: no signal, fair steps --------------- *)
\* a datagram is kept only while its exit time falls within the time modelled,
\* so that every packet queued comes due
RecvKeepInTime ==
    /\ clock + opt.min_delay + opt.rand_delay <= MaxTime
    /\ RecvKeep

\* the steps of main() and of process_queue that wait for nothing
ProgramStep ==
    \/ LoopTop
    \/ EventsDone
    \/ SockactEvent
    \/ DrainEnd
    \/ PqReturn

\* poll returns with the socket writable
PollWritable == PollEvents /\ "writable" \in Head(events').readiness

\* send_to answers something other than WouldBlock
SendAnswered == SendOk \/ SendErr

\* the receive loop goes on to its next recv_from, or ends
ReceiveStep == RecvWouldBlock \/ RecvDrop \/ RecvKeepInTime

LiveNext ==
    \/ Tick
    \/ ProgramStep
    \/ PollEvents
    \/ PollTimeout
    \/ SendAnswered
    \/ SendWouldBlock
    \/ ReceiveStep

\* the program runs on, time advances, poll returns when its timeout has run
\* out, the socket is writable again and again when writable is asked for,
\* and send_to does not answer WouldBlock for ever
Fairness ==
    /\ WF_vars(ProgramStep)
    /\ WF_vars(ReceiveStep)
    /\ WF_vars(PollTimeout)
    /\ SF_vars(Tick)
    /\ SF_vars(PollWritable)
    /\ SF_vars(SendAnswered)

LiveSpec == Init /\ [][LiveNext]_vars /\ Fairness

(* ------------------- the Delivery Queue on its own --------------------- *)
\* The queue driven by any interleaving of push and pop, with packets of any
\* exit time; received numbers the packets pushed.
QueueInit ==
    /\ pc = "queue"
    /\ clock = 0
    /\ opt = [drop |-> 0, min_delay |-> 0, rand_delay |-> 0]
    /\ queue = <<>>
    /\ buffer_pool = <<>>
    /\ now = 0
    /\ max_delay = None
    /\ interest = {"readable"}
    /\ events = <<>>
    /\ pq_now = 0
    /\ pq_bytes = 0
    /\ pq_delay = 0
    /\ bytes_sent = 0
    /\ extra_delay = 0
    /\ received = 0
    /\ parsed = 0
    /\ pushed = 0
    /\ refused = <<>>
    /\ lastAttempt = None
    /\ sent = [pid \in 1..MaxRecv |-> 0]
    /\ sentBytes = 0
    /\ held = <<>>
    /\ recycled = <<>>

Push ==
    /\ pc = "queue"
    /\ received < MaxPushes
    /\ \E a \in Arrivals, t \in 0..MaxTime :
        LET r == RecvFrom(BufferDefault(FreshId(<<>>, queue)), a.dgram)
            tag == [pid |-> received + 1, rx |-> a.dgram, orig |-> a.addr, at |-> 0]
        IN queue' = QueuePush(queue, PacketCreate(a.addr, r.buffer, r.len, t, tag).packet)
    /\ received' = received + 1
    /\ UNCHANGED <<pc, clock, opt, aux, buffer_pool, mainVars, events, pqVars, sentVars,
                   parsed, pushed, refused, sendHist>>

Pop ==
    /\ pc = "queue"
    /\ queue # <<>>
    /\ queue' = QueuePop(queue)
    /\ UNCHANGED <<pc, clock, opt, aux, buffer_pool, mainVars, events, pqVars, sentVars,
                   ingestHist, sendHist>>

QueueNext == Push \/ Pop

QueueSpec == QueueInit /\ [][QueueNext]_vars

(* ------------------ the Buffer Pool, driven on its own ------------------ *)
\* BufferPool::default(), used as main() uses it: a holder takes buffers with
\* get_buffer, receives into them and cuts them as Packet::create does, and
\* gives them back with recycle_byffer in any order.
PoolInit ==
    /\ pc = "pool"
    /\ clock = 0
    /\ opt = [drop |-> 0, min_delay |-> 0, rand_delay |-> 0]
    /\ queue = <<>>
    /\ buffer_pool = <<>>
    /\ now = 0
    /\ max_delay = None
    /\ interest = {"readable"}
    /\ events = <<>>
    /\ pq_now = 0
    /\ pq_bytes = 0
    /\ pq_delay = 0
    /\ bytes_sent = 0
    /\ extra_delay = 0
    /\ received = 0
    /\ parsed = 0
    /\ pushed = 0
    /\ refused = <<>>
    /\ lastAttempt = None
    /\ sent = [pid \in 1..MaxRecv |-> 0]
    /\ sentBytes = 0
    /\ held = <<>>
    /\ recycled = <<>>

\* the buffers the holder has, in the shape FreshId reads a queue
HeldAsQueue == [i \in DOMAIN held |-> [data |-> held[i]]]

\* buffer_pool.get_buffer()
PoolGet ==
    /\ pc = "pool"
    /\ Len(held) < MaxHeld
    /\ LET g == GetBuffer(buffer_pool, FreshId(buffer_pool, HeldAsQueue))
       IN /\ held' = Append(held, g.buffer)
          /\ buffer_pool' = g.pool
    /\ UNCHANGED <<pc, clock, opt, recycled, queue, mainVars, events, pqVars,
                   sentVars, ingestHist, sendHist>>

\* socket.recv_from(buffer.get_mut()) and the set_len of Packet::create on a
\* buffer the holder has
PoolUse ==
    /\ pc = "pool"
    /\ \E i \in DOMAIN held, a \in Arrivals :
        LET r == RecvFrom(held[i], a.dgram)
        IN /\ held[i].len = MAX_BUFFER_SIZE
           /\ held' = [held EXCEPT ![i] = SetLen(r.buffer, r.len)]
    /\ UNCHANGED <<pc, clock, opt, recycled, queue, buffer_pool, mainVars, events,
                   pqVars, sentVars, ingestHist, sendHist>>

\* buffer_pool.recycle_byffer(buffer)
PoolRecycle ==
    /\ pc = "pool"
    /\ Len(recycled) < MaxRecycles
    /\ \E i \in DOMAIN held :
        /\ buffer_pool' = RecycleBuffer(buffer_pool, held[i])
        /\ recycled' = Append(recycled, held[i].id)
        /\ held' = [j \in 1..(Len(held) - 1) |-> IF j < i THEN held[j] ELSE held[j + 1]]
    /\ UNCHANGED <<pc, clock, opt, queue, mainVars, events, pqVars, sentVars,
                   ingestHist, sendHist>>

PoolNext == PoolGet \/ PoolUse \/ PoolRecycle

PoolSpec == PoolInit /\ [][PoolNext]_vars

(* ------------------------------ claims --------------------------------- *)
QueuedPackets == {queue[i] : i \in DOMAIN queue}
PooledBuffers == {buffer_pool[i] : i \in DOMAIN buffer_pool}
Attempted == Value(lastAttempt)
IsAttempt(result) == lastAttempt # None /\ Attempted.result = result

\* C1: a datagram received with fewer than six bytes is refused by
\* Packet::create and never reaches the Delivery Queue.
C1_ShortNeverQueued ==
    \A p \in QueuedPackets : Len(p.tag.rx) >= HeaderLen

\* C2: a packet whose transmit attempt failed with an error other than
\* would-block is popped from the Delivery Queue.
C2_FailedIsPopped ==
    IsAttempt("Err") => \A p \in QueuedPackets : p.tag.pid # Attempted.pid

\* C3: a would-block ends the drain pass at once and leaves the Delivery
\* Queue and the Buffer Pool exactly as they were before the attempt.
C3_RetrySafety ==
    [][(pc = "drain" /\ lastAttempt' # None /\ Value(lastAttempt').result = "WouldBlock")
        => (queue' = queue /\ buffer_pool' = buffer_pool /\ pc' = "pq_ret")]_vars

\* a pass that has sent a packet and then met would-block on the next one,
\* which is still queued
C3_Witness ==
    /\ pc = "pq_ret"
    /\ IsAttempt("WouldBlock")
    /\ pq_bytes > 0
    /\ queue # <<>>
    /\ QueuePeek(queue).tag.pid = Attempted.pid
    /\ buffer_pool # <<>>

\* C4: under any interleaving of pushes and pops the head of the Delivery
\* Queue has the least exit time of all queued packets, so that pops that
\* follow one another yield exit times that never decrease.
C4_PeekIsMin ==
    queue # <<>> => \A p \in QueuedPackets : QueuePeek(queue).exit_time <= p.exit_time

\* a queue of four packets, after a pop, whose head arrived after a packet of
\* a greater exit time that is still queued
C4_Witness ==
    /\ pc = "queue"
    /\ received = MaxPushes
    /\ Len(queue) = 3
    /\ \E p \in QueuedPackets :
        /\ p.tag.pid < QueuePeek(queue).tag.pid
        /\ p.exit_time > QueuePeek(queue).exit_time

\* C5: over a whole run the packets handed to send_to follow one another in
\* exit times that never decrease.
C5_AttemptsInOrder ==
    [][(lastAttempt # None /\ lastAttempt' # None)
        => Value(lastAttempt').exit_time >= Attempted.exit_time]_vars

\* the first datagram received is the last one sent: the second one, of a
\* smaller exit time, has left the queue before it
C5_Witness ==
    /\ IsAttempt("Ok")
    /\ Attempted.pid = 1
    /\ Attempted.exit_time > 0
    /\ pushed = 2
    /\ queue = <<>>

\* C6: a datagram of L >= 6 bytes naming destination D, from sender S, is
\* accepted by Packet::create and queued with destination D, logical length L,
\* bytes [0,6) the address and big-endian port of S, and bytes [6,L) as received.
C6_HeaderRewrite ==
    /\ \A n \in {refused[i] : i \in DOMAIN refused} : n < HeaderLen
    /\ \A p \in QueuedPackets :
        LET rx == p.tag.rx
            L == Len(rx)
            out == SliceBytes(BufferGet(p.data))
        IN L >= HeaderLen =>
            /\ p.dst = [ip |-> SubSeq(rx, 1, 4), port |-> rx[5] * 256 + rx[6]]
            /\ p.data.len = L
            /\ SubSeq(out, 1, 4) = p.tag.orig.ip
            /\ out[5] * 256 + out[6] = p.tag.orig.port
            /\ out[5] < 256 /\ out[6] < 256
            /\ \A i \in 7..L : out[i] = rx[i]

\* a queued packet made from a datagram with payload, in a buffer that came
\* from the pool
C6_Witness ==
    \E p \in QueuedPackets :
        /\ Len(p.tag.rx) > HeaderLen
        /\ p.tag.pid > 1
        /\ bytes_sent > 0

\* C7: at drop = 1.0 nothing is ever queued or transmitted; at drop = 0.0
\* every received datagram that Packet::create accepts is pushed exactly once.
C7_DropBoundary ==
    /\ opt.drop = 100 => (queue = <<>> /\ pushed = 0 /\ lastAttempt = None /\ bytes_sent = 0)
    /\ opt.drop = 0 =>
        /\ pushed = parsed
        /\ received = parsed + Len(refused)
        /\ \A p, q \in QueuedPackets : p.tag.pid = q.tag.pid => p = q
        /\ \A p \in QueuedPackets : p.tag.pid \in 1..received

\* every datagram of the run has been received at drop = 1.0
C7_Witness ==
    /\ opt.drop = 100
    /\ received = MaxRecv
    /\ pc = "top"

\* C8: the exit time of every queued packet lies between min_delay and
\* min_delay + rand_delay milliseconds after the instant of its reception.
C8_DelayBoundary ==
    \A p \in QueuedPackets :
        /\ p.exit_time - p.tag.at >= opt.min_delay
        /\ p.exit_time - p.tag.at <= opt.min_delay + opt.rand_delay

\* two queued packets, one at each end of the range of delays
C8_Witness ==
    /\ opt.rand_delay > 0
    /\ \E p, q \in QueuedPackets :
        /\ p.exit_time - p.tag.at = opt.min_delay
        /\ q.exit_time - q.tag.at = opt.min_delay + opt.rand_delay

\* C9: the receive loop gives every buffer it takes from the Buffer Pool to a
\* queued packet or back to the pool, so that the buffers of the pool and of
\* the queue together never become fewer.
C9_BuffersConserved ==
    [][Len(buffer_pool') + Len(queue') >= Len(buffer_pool) + Len(queue)]_vars

\* C10: every buffer's logical length is at most its capacity, every pooled
\* buffer's logical length is the capacity, and no buffer has two holders.
C10_BufferHygiene ==
    /\ \A b \in PooledBuffers : b.len = MAX_BUFFER_SIZE
    /\ \A p \in QueuedPackets : p.data.len <= MAX_BUFFER_SIZE
    /\ \A i, j \in DOMAIN buffer_pool : buffer_pool[i].id = buffer_pool[j].id => i = j
    /\ \A i, j \in DOMAIN queue : queue[i].data.id = queue[j].data.id => i = j
    /\ \A b \in PooledBuffers, p \in QueuedPackets : b.id # p.data.id

\* a recycled buffer in the pool beside a queued packet of a shorter length
C10_Witness ==
    /\ buffer_pool # <<>>
    /\ \E p \in QueuedPackets : p.data.len < MAX_BUFFER_SIZE /\ p.data.buf # <<>>
    /\ \E b \in PooledBuffers : b.buf # <<>>

\* the ids of the buffers in the pool
PooledIds == {b.id : b \in PooledBuffers}

\* the place in recycled of the latest recycling of a buffer that is in the pool
LatestPooled ==
    CHOOSE i \in DOMAIN recycled :
        /\ recycled[i] \in PooledIds
        /\ \A j \in DOMAIN recycled : (j > i) => recycled[j] \notin PooledIds

\* C11: get_buffer always hands out a buffer.  From a pool that holds
\* recycled buffers it hands out the one recycled last and takes it, and only
\* it, out of the pool; from an empty pool it hands out a fresh buffer, all
\* zero and at full capacity, and the pool stays empty.
C11_GetBuffer ==
    [][(pc = "pool" /\ Len(held') > Len(held))
        => LET got == held'[Len(held')] IN
           IF buffer_pool # <<>>
           THEN /\ got.id = recycled[LatestPooled]
                /\ got \in PooledBuffers
                /\ Len(buffer_pool') = Len(buffer_pool) - 1
                /\ \A b \in PooledBuffers : (b.id # got.id) <=> (b \in {buffer_pool'[i] : i \in DOMAIN buffer_pool'})
           ELSE /\ \A i \in DOMAIN got.buf : got.buf[i] = 0
                /\ got.len = MAX_BUFFER_SIZE
                /\ got.id \notin {held[i].id : i \in DOMAIN held}
                /\ buffer_pool' = <<>>]_vars

\* the pool held two buffers and the holder has taken the one recycled
\* last, which carries the bytes written into it before; the other is still
\* in the pool
C11_Witness ==
    /\ pc = "pool"
    /\ Len(recycled) = MaxRecycles
    /\ Len(buffer_pool) = 1
    /\ Len(held) = 1
    /\ held[1].id = recycled[MaxRecycles]
    /\ held[1].buf # <<>>
    /\ held[1].len = MAX_BUFFER_SIZE
    /\ buffer_pool[1].id # held[1].id

\* C12: the step that handles the termination signal ends the loop and
\* neither sends nor pops a packet that is still queued; nothing runs after
\* it; and the total it reports is the sum of the lengths returned by the
\* sends that succeeded, failed and would-block attempts adding nothing.
C12_Shutdown ==
    /\ [](pc = "done" => bytes_sent = sentBytes)
    /\ [][(pc' = "done")
           => (queue' = queue /\ buffer_pool' = buffer_pool /\ sendHist' = sendHist
               /\ bytes_sent' = bytes_sent)]_vars
    /\ [][pc # "done"]_vars

\* shutdown after a packet was sent, with a packet still queued whose last
\* attempt met would-block
C12_Witness ==
    /\ pc = "done"
    /\ queue # <<>>
    /\ IsAttempt("WouldBlock")
    /\ \E pid \in DOMAIN sent : sent[pid] = 1
    /\ bytes_sent > 0

\* the time left until the head of the Delivery Queue is due, zero once it is
Remaining == Max(QueuePeek(queue).exit_time - now, 0)

C14_Interest ==
    (pc = "poll")
        => /\ "readable" \in interest
           /\ ("writable" \in interest)
                <=> (queue # <<>> /\ \E p \in QueuedPackets :
                        /\ \A q \in QueuedPackets : p.exit_time <= q.exit_time
                        /\ p.exit_time <= now)

\* a wait with two packets queued, the head not yet due and the clock already
\* past the first tick, so writable is not asked for
C14_Witness ==
    /\ pc = "poll"
    /\ Len(queue) = 2
    /\ now > 0
    /\ QueuePeek(queue).exit_time > now
    /\ interest = {"readable"}

\* C15: every iteration of a drain pass either removes the head packet from
\* the Delivery Queue or ends the pass, whatever send_to answers, so that a
\* pass attempts each packet at most once and comes to an end.
C15_DrainStepProgress ==
    [][(pc = "drain") => (pc' = "pq_ret" \/ Len(queue') = Len(queue) - 1)]_vars

\* datagram pid is in the Delivery Queue
Scheduled(pid) == \E p \in QueuedPackets : p.tag.pid = pid

\* C16: when time advances, the socket is writable again and again, send_to
\* does not answer would-block for ever and no signal arrives, every packet
\* pushed to the Delivery Queue leaves it in the end, sent or discarded.
C16_EveryPacketLeaves ==
    \A pid \in 1..MaxRecv : Scheduled(pid) ~> ~Scheduled(pid)

\* C17: for every queued packet and every reading of the clock,
\* get_duration_till_next gives release time minus now when the release
\* time is later than now and zero when it is not; it gives no negative
\* time, and it gives an answer (never None) for a packet already due.
C17_TimeUntilDue ==
    \A p \in QueuedPackets, t \in 0..(MaxTime + 1) :
        LET d == GetDurationTillNext(p, t) IN
        /\ d # None
        /\ Value(d) >= 0
        /\ (p.exit_time > t) => (t + Value(d) = p.exit_time)
        /\ (p.exit_time <= t) => (Value(d) = 0)

\* the loop has just asked the head for its time until due when the head was
\* overdue, with a packet behind it that is not yet due
C17_Witness ==
    /\ pc = "poll"
    /\ queue # <<>>
    /\ QueuePeek(queue).exit_time < now
    /\ max_delay = Some(0)
    /\ \E p \in QueuedPackets : p.exit_time > now

\* C18: whenever a packet has been handed to send_to, whatever the answer,
\* the clock had reached that packet's release time: no packet is attempted
\* before it is due, however much lateness extra_delay has run up.
C18_NoEarlyRelease ==
    (lastAttempt # None) => (Attempted.exit_time <= clock)

\* a packet sent at the very tick of its release, in a pass that started
\* after an earlier packet had been sent late
C18_Witness ==
    /\ pc = "drain"
    /\ IsAttempt("Ok")
    /\ Attempted.exit_time = clock
    /\ extra_delay > 0

\* the datagram a step has just sent with success
JustSent == CHOOSE pid \in DOMAIN sent : sent'[pid] # sent[pid]

\* C19: over a whole run send_to succeeds at most once for each packet
\* pushed to the Delivery Queue, and the step of a successful send takes
\* that packet, and no other, out of the queue and puts that packet's
\* buffer, and no other, on top of the pool.
C19_AtMostOnce ==
    /\ [](\A pid \in DOMAIN sent : sent[pid] <= 1)
    /\ [][(sent' # sent)
           => /\ Scheduled(JustSent)
              /\ \A p \in QueuedPackets : (p.tag.pid # JustSent) <=> (p \in QueuedPackets')
              /\ Len(queue') = Len(queue) - 1
              /\ Len(buffer_pool') = Len(buffer_pool) + 1
              /\ SubSeq(buffer_pool', 1, Len(buffer_pool)) = buffer_pool
              /\ \E p \in QueuedPackets :
                    /\ p.tag.pid = JustSent
                    /\ buffer_pool'[Len(buffer_pool')].id = p.data.id]_vars

\* both packets of a run sent, the second one while the first one's buffer
\* lay in the pool, and each counted once
C19_Witness ==
    /\ \A pid \in DOMAIN sent : sent[pid] = 1
    /\ queue = <<>>
    /\ Len(buffer_pool) = 2
    /\ buffer_pool[1].id # buffer_pool[2].id

\* the packet that the datagram of p, from the sender of p, makes when it is
\* received into a buffer that was never used
IntoFreshBuffer(p) ==
    LET r == RecvFrom(BufferDefault(p.data.id), p.tag.rx)
    IN PacketCreate(p.tag.orig, r.buffer, r.len, p.exit_time, p.tag)

\* C20: what becomes of a datagram depends on the bytes received and on the
\* sender only: received into a recycled buffer it is accepted or refused,
\* addressed, and sent out byte for byte as it is when received into a
\* buffer that holds no stale bytes.
C20_StaleByteIndependence ==
    \A p \in QueuedPackets :
        LET fresh == IntoFreshBuffer(p) IN
        /\ fresh.ok
        /\ p.dst = fresh.packet.dst
        /\ SliceBytes(BufferGet(p.data)) = SliceBytes(BufferGet(fresh.packet.data))
====
